---- MODULE Spec2Model ----
(***************************************************************************)
(* Model of convert_tcx.py: the Peloton TCX -> TrainerRoad TCX converter.  *)
(*                                                                         *)
(* A document is a sequence of tokens (start tags, end tags, text runs);   *)
(* white space between tags is not represented.  The regular expressions   *)
(* of convert_tcx_string are operators on token sequences, the             *)
(* ElementTree parse is an operator from tokens to a flat preorder tree.   *)
(* Numbers are exact rationals num/den with a sign, which is what Python's *)
(* float arithmetic and repr give on the small values used here.           *)
(***************************************************************************)
EXTENDS Integers, Sequences, FiniteSets, TLC

\* ---------------------------------------------------------------- bounds
MaxPoints == 3    \* Trackpoints of a one-Track input document
MaxSplit  == 2    \* Trackpoints of an input document of several Tracks or Laps
MaxSec    == 1    \* timestamps are second 0..MaxSec of the workout
MaxDist   == 1    \* a DistanceMeters is 0 or MaxDist metres

\* ------------------------------------------------------------ text values
\* The text of an element: k = "int" is a digit string ("10"), "float" a
\* decimal as Python prints a float ("1.0", "-0.5"), "time" an ISO-8601
\* timestamp (num = wall-clock second, s = its zone suffix), "str" other text.
NoVal == [k |-> "", neg |-> FALSE, num |-> 0, den |-> 1, s |-> ""]

TimeText(sec, sfx) == [k |-> "time", neg |-> FALSE, num |-> sec, den |-> 1, s |-> sfx]

IntText(n) == [k |-> "int", neg |-> FALSE, num |-> n, den |-> 1, s |-> ""]

FloatText(neg, n, d) == [k |-> "float", neg |-> neg, num |-> n, den |-> d, s |-> ""]

StrText(s) == [k |-> "str", neg |-> FALSE, num |-> 0, den |-> 1, s |-> s]

\* Python values: None, the int 0, a float (sign, num/den), or a raised fault.
PyNone == [k |-> "None", neg |-> FALSE, num |-> 0, den |-> 1, s |-> ""]

PyInt(n) == [k |-> "pyint", neg |-> FALSE, num |-> n, den |-> 1, s |-> ""]

PyFloat(neg, n, d) == [k |-> "pyfloat", neg |-> neg, num |-> n, den |-> d, s |-> ""]

ZeroDivisionError == [k |-> "ZeroDivisionError", neg |-> FALSE, num |-> 0, den |-> 1, s |-> ""]

ValueError == [k |-> "ValueError", neg |-> FALSE, num |-> 0, den |-> 1, s |-> ""]

\* ----------------------------------------------------------------- tokens
\* p is the namespace prefix written in the tag, a its attributes.
OpenA(p, n, a) == [t |-> "open", p |-> p, n |-> n, a |-> a, v |-> NoVal]

Open(n) == OpenA("", n, "")

CloseP(p, n) == [t |-> "close", p |-> p, n |-> n, a |-> "", v |-> NoVal]

Close(n) == CloseP("", n)

Text(v) == [t |-> "text", p |-> "", n |-> "", a |-> "", v |-> v]

Leaf(n, v) == <<Open(n), Text(v), Close(n)>>

\* ------------------------------------------------------ sequence helpers
\* the concatenation of the sequences ss[lo], ..., ss[hi]
RECURSIVE FlattenRange(_, _, _)
FlattenRange(ss, lo, hi) ==
    IF lo > hi THEN <<>>
    ELSE IF lo = hi THEN ss[lo]
    ELSE LET mid == (lo + hi) \div 2
         IN  FlattenRange(ss, lo, mid) \o FlattenRange(ss, mid + 1, hi)

Flatten(ss) == FlattenRange(ss, 1, Len(ss))

Abs(x) == IF x < 0 THEN -x ELSE x

RECURSIVE GCD(_, _)
GCD(a, b) == IF b = 0 THEN a ELSE GCD(b, a % b)

\* ------------------------------------------------------------ Python values
\* float(text) of a numeric element text.
Float(txt) == PyFloat(txt.neg, txt.num, txt.den)

\* str(value), as the f-string of line 191 formats the speed.
Str(val) ==
    IF val.k = "pyint" THEN IntText(val.num) ELSE FloatText(val.neg, val.num, val.den)

\* curr_distance - prev_distance on floats (line 50); x - x is +0.0.
Sub(x, y) ==
    LET sx == IF x.neg THEN -x.num ELSE x.num
        sy == IF y.neg THEN -y.num ELSE y.num
        n  == sx * y.den - sy * x.den
        d  == x.den * y.den
        g  == GCD(Abs(n), d)
    IN  PyFloat(n < 0, Abs(n) \div g, d \div g)

\* distance_delta / time_delta (line 51); the sign of a zero follows IEEE 754.
Div(x, td) ==
    IF td = 0 THEN ZeroDivisionError
    ELSE LET d == x.den * Abs(td)
             g == GCD(x.num, d)
         IN  PyFloat(x.neg # (td < 0), x.num \div g, d \div g)

\* value == 0 in Python: the int 0, 0.0 and -0.0 all compare equal to 0.
IsZero(val) == val.k \in {"pyint", "pyfloat"} /\ val.num = 0

\* ------------------------------------------------------------- timestamps
ZoneSuffix == {"Z", "+00:00", "+00:01"}

\* seconds east of UTC of an explicit offset
OffsetSeconds(sfx) == IF sfx = "+00:01" THEN 60 ELSE 0

\* datetime.fromisoformat: the instant, in seconds; it rejects a 'Z' suffix.
fromisoformat(txt) ==
    IF txt.s = "Z" THEN [ok |-> FALSE, at |-> 0]
    ELSE [ok |-> TRUE, at |-> txt.num - OffsetSeconds(txt.s)]

ReplaceZ(txt) == IF txt.s = "Z" THEN [txt EXCEPT !.s = "+00:00"] ELSE txt

parse_time(time_str) == fromisoformat(ReplaceZ(time_str))

\* a calculate_speed without the test of lines 47-48
calculate_speed_unguarded(prev_distance, curr_distance, prev_time, curr_time) ==
    IF prev_time = PyNone THEN PyInt(0)
    ELSE LET curr == parse_time(curr_time)
             prev == parse_time(prev_time)
             time_delta == curr.at - prev.at
         IN  IF ~curr.ok \/ ~prev.ok THEN ValueError
             ELSE Div(Sub(curr_distance, prev_distance), time_delta)

calculate_speed(prev_distance, curr_distance, prev_time, curr_time) ==
    IF prev_time = PyNone THEN PyInt(0)
    ELSE LET curr == parse_time(curr_time)
             prev == parse_time(prev_time)
             time_delta == curr.at - prev.at
         IN  IF ~curr.ok \/ ~prev.ok THEN ValueError
             ELSE IF time_delta = 0 THEN PyInt(0)
             ELSE Div(Sub(curr_distance, prev_distance), time_delta)

\* -------------------------------------------------------- input documents
TCX == "xmlns=tcx"
TCXNS3 == "xmlns=tcx xmlns:ns3=ext"
EXT == "xmlns=ext"

LapExtension ==
    <<Open("Extensions"), OpenA("", "TPX", EXT)>> \o Leaf("AvgSpeed", FloatText(FALSE, 7, 2))
        \o <<Close("TPX"), Close("Extensions")>>

CreatorBlock == <<Open("Creator")>> \o Leaf("Name", StrText("Peloton Bike")) \o <<Close("Creator")>>

\* tp is a Trackpoint of an input file: its time, dist and speed are the
\* element texts, NoVal when the element is absent.
TrackpointTokens(tp, rich) ==
    <<Open("Trackpoint")>>
    \o (IF tp.time = NoVal THEN <<>> ELSE Leaf("Time", tp.time))
    \o (IF tp.dist = NoVal THEN <<>> ELSE Leaf("DistanceMeters", tp.dist))
    \o (IF rich
        THEN <<Open("HeartRateBpm")>> \o Leaf("Value", FloatText(FALSE, 142, 1))
                 \o <<Close("HeartRateBpm")>> \o Leaf("Cadence", FloatText(FALSE, 161, 2))
        ELSE <<>>)
    \o (IF tp.speed = NoVal /\ ~rich THEN <<>>
        ELSE <<Open("Extensions"), OpenA("", "TPX", EXT)>>
             \o (IF tp.speed = NoVal THEN <<>> ELSE Leaf("Speed", tp.speed))
             \o (IF rich THEN Leaf("Watts", FloatText(FALSE, 150, 1))
                              \o Leaf("Resistance", IntText(30))
                 ELSE <<>>)
             \o <<Close("TPX"), Close("Extensions")>>)
    \o <<Close("Trackpoint")>>

LapOpen(d) == <<OpenA("", "Lap", "StartTime")>> \o (IF d.lapext THEN LapExtension ELSE <<>>)

\* index of the first Trackpoint of the last Track of the document
LastTrackStart(tps) ==
    CHOOSE i \in 1..Len(tps) :
        /\ i = 1 \/ tps[i].brk # "cont"
        /\ \A j \in (i + 1)..Len(tps) : tps[j].brk = "cont"

\* The tokens before Trackpoint i.  tps[i].brk says whether it continues the
\* current Track ("cont"), starts a second Track in the same Lap ("track") or
\* starts a new Lap ("lap").  With d.course the last Track is the Track of a
\* Course, outside every Activity.
Before(d, i) ==
    LET tps == d.tps
        inCourse == d.course /\ i = LastTrackStart(tps)
    IN  IF i = 1
        THEN IF inCourse
             THEN <<Close("Activity"), Close("Activities"), Open("Courses"), Open("Course"),
                    Open("Track")>>
             ELSE LapOpen(d) \o <<Open("Track")>>
        ELSE IF inCourse
             THEN <<Close("Track"), Close("Lap"), Close("Activity"), Close("Activities"),
                    Open("Courses"), Open("Course"), Open("Track")>>
        ELSE IF tps[i].brk = "track" THEN <<Close("Track"), Open("Track")>>
        ELSE IF tps[i].brk = "lap"
             THEN <<Close("Track"), Close("Lap")>> \o LapOpen(d) \o <<Open("Track")>>
        ELSE <<>>

RECURSIVE Body(_, _)
Body(d, i) ==
    IF i > Len(d.tps) THEN <<>>
    ELSE Before(d, i) \o TrackpointTokens(d.tps[i], d.rich) \o Body(d, i + 1)

Render(d) ==
    <<OpenA("", "TrainingCenterDatabase", IF d.ns3 THEN TCXNS3 ELSE TCX),
      Open("Activities"), OpenA("", "Activity", "Sport")>>
    \o (IF d.creator THEN CreatorBlock ELSE <<>>)
    \o (IF d.emptylap THEN <<OpenA("", "Lap", "StartTime"), Close("Lap")>> ELSE <<>>)
    \o Body(d, 1)
    \o (IF d.course THEN <<Close("Track"), Close("Course"), Close("Courses")>>
        ELSE <<Close("Track"), Close("Lap"), Close("Activity"), Close("Activities")>>)
    \o <<Close("TrainingCenterDatabase")>>

\* ------------------------------------------------- ElementTree: fromstring
\* Namespace declarations carried by an attribute string.
NS0  == "xmlns:ns0=tcx"
NS01 == "xmlns:ns0=tcx xmlns:ns1=ext"

DefaultNs(a, inherited) ==
    IF a \in {TCX, TCXNS3} THEN "tcx" ELSE IF a = EXT THEN "ext" ELSE inherited

BoundPrefixes(a) ==
    IF a = TCXNS3 THEN {"ns3"} ELSE IF a = NS0 THEN {"ns0"}
    ELSE IF a = NS01 THEN {"ns0", "ns1"} ELSE {}

PrefixNs(p) == IF p = "ns0" THEN "tcx" ELSE "ext"

ParseStart == [ok |-> TRUE, nodes |-> <<>>, stack |-> <<>>]

ParseFail == [ok |-> FALSE, nodes |-> <<>>, stack |-> <<>>]

\* The parser reads token i.  The tree is the sequence of elements in
\* document order; the descendants of element i are the elements
\* i+1 .. nodes[i].last; stack holds the elements that are still open.
ParseToken(toks, i, st) ==
    LET tk    == toks[i]
        depth == Len(st.stack)
        top   == IF depth = 0 THEN 0 ELSE st.stack[depth]
    IN  IF tk.t = "open"
        THEN LET dflt  == DefaultNs(tk.a, IF depth = 0 THEN "" ELSE st.nodes[top].dflt)
                 bound == BoundPrefixes(tk.a) \cup (IF depth = 0 THEN {} ELSE st.nodes[top].bound)
                 node  == [ns |-> IF tk.p = "" THEN dflt ELSE PrefixNs(tk.p),
                           n |-> tk.n, p |-> tk.p, a |-> tk.a, text |-> NoVal,
                           last |-> 0, dflt |-> dflt, bound |-> bound]
             IN  IF depth = 0 /\ st.nodes # <<>> THEN ParseFail       \* junk after document element
                 ELSE IF tk.p # "" /\ tk.p \notin bound THEN ParseFail  \* unbound prefix
                 ELSE [st EXCEPT !.nodes = Append(@, node),
                                 !.stack = Append(@, Len(st.nodes) + 1)]
        ELSE IF tk.t = "close"
        THEN IF depth = 0 \/ st.nodes[top].n # tk.n \/ st.nodes[top].p # tk.p
             THEN ParseFail                                            \* mismatched tag
             ELSE [st EXCEPT !.nodes[top].last = Len(st.nodes),
                             !.stack = SubSeq(@, 1, depth - 1)]
        ELSE IF depth = 0 THEN ParseFail                               \* text outside the root
             ELSE IF toks[i - 1].t = "open"
             THEN [st EXCEPT !.nodes[top].text = tk.v]
             ELSE st

\* The parser reads the tokens lo..hi in order, and stops at the first error.
RECURSIVE ParseRange(_, _, _, _)
ParseRange(toks, lo, hi, st) ==
    IF ~st.ok \/ lo > hi THEN st
    ELSE IF lo = hi THEN ParseToken(toks, lo, st)
    ELSE LET mid == (lo + hi) \div 2
         IN  ParseRange(toks, mid + 1, hi, ParseRange(toks, lo, mid, st))

\* what the conversion reads of an element: its tag, its text, its extent
Elements(nodes) ==
    [i \in 1..Len(nodes) |->
        [ns |-> nodes[i].ns, n |-> nodes[i].n, text |-> nodes[i].text, last |-> nodes[i].last]]

\* ET.fromstring: [ok |-> FALSE] stands for ParseError.
fromstring(toks) ==
    LET st == ParseRange(toks, 1, Len(toks), ParseStart)
    IN  IF st.ok /\ st.stack = <<>> /\ st.nodes # <<>> THEN st ELSE ParseFail  \* no element found, or unclosed

\* elem.findall('.//{ns}name'): the matching descendants of element i, in
\* document order; elem.find is the first of them (0 for None).
findall(nodes, i, ns, name) ==
    SelectSeq([j \in 1..(nodes[i].last - i) |-> i + j],
              LAMBDA j : nodes[j].ns = ns /\ nodes[j].n = name)

find(nodes, i, ns, name) ==
    LET all == findall(nodes, i, ns, name) IN IF all = <<>> THEN 0 ELSE all[1]

\* --------------------------------------------------- ElementTree: tostring
OutPrefix(ns) == IF ns = "tcx" THEN "ns0" ELSE IF ns = "ext" THEN "ns1" ELSE ""

OutAttr(nodes, i) ==
    IF i = 1
    THEN IF \E j \in 1..Len(nodes) : nodes[j].ns = "ext" THEN NS01 ELSE NS0
    ELSE IF nodes[i].a \in {TCX, TCXNS3, EXT} THEN "" ELSE nodes[i].a

\* the end tags after element k and its text: of the elements whose last
\* descendant is k, the innermost first
ClosesAt(nodes, k) ==
    LET ends == SelectSeq([j \in 1..k |-> k + 1 - j], LAMBDA j : nodes[j].last = k)
    IN  [m \in 1..Len(ends) |-> CloseP(OutPrefix(nodes[ends[m]].ns), nodes[ends[m]].n)]

\* ET.tostring(root) after indent_xml(root): indentation is white space only.
tostring(nodes) ==
    Flatten([k \in 1..Len(nodes) |->
                <<OpenA(OutPrefix(nodes[k].ns), nodes[k].n, OutAttr(nodes, k))>>
                \o (IF nodes[k].text = NoVal THEN <<>> ELSE <<Text(nodes[k].text)>>)
                \o ClosesAt(nodes, k)])

\* ------------------------------------------------------ the rewrite rules
\* Each rule is re.sub / str.replace of convert_tcx_string on the token text.
\* Input files are laid out with a line break between adjacent tags, so a
\* pattern without re.DOTALL matches inside one leaf element only.
MinOf(S) == CHOOSE x \in S : \A y \in S : x <= y

\* a text without the tokens at the positions gone
Without(toks, gone) ==
    LET keep == SelectSeq([i \in 1..Len(toks) |-> i], LAMBDA i : i \notin gone)
    IN  [k \in 1..Len(keep) |-> toks[keep[k]]]

\* The end of the match of r'<Creator>.*?</Creator>', re.DOTALL, that starts
\* at i; 0 for no match.
CreatorEnd(toks, i) ==
    LET ends == {j \in (i + 1)..Len(toks) : toks[j] = Close("Creator")}
    IN  IF toks[i] = Open("Creator") /\ ends # {} THEN MinOf(ends) ELSE 0

\* the positions from i on that re.sub matches: the leftmost match, then the
\* leftmost after it
RECURSIVE CreatorMatches(_, _)
CreatorMatches(toks, i) ==
    LET starts == {s \in i..Len(toks) : CreatorEnd(toks, s) # 0}
    IN  IF starts = {} THEN {}
        ELSE LET s == MinOf(starts)
                 e == CreatorEnd(toks, s)
             IN  (s..e) \cup CreatorMatches(toks, e + 1)

\* Remove Creator block (line 149)
RemoveCreator(toks) == Without(toks, CreatorMatches(toks, 1))

\* The ends j of a match of
\*   <Extensions>\s*<TPX[^>]*>.*?</TPX>\s*</Extensions>\s*(?=<Track>)
\* that starts at i: toks[j] is its </Extensions>.
LapExtensionEnds(toks, i) ==
    IF /\ i + 1 <= Len(toks)
       /\ toks[i] = Open("Extensions")
       /\ toks[i + 1].t = "open" /\ toks[i + 1].p = "" /\ toks[i + 1].n = "TPX"
    THEN {j \in (i + 3)..(Len(toks) - 1) :
              /\ toks[j - 1] = Close("TPX")
              /\ toks[j] = Close("Extensions")
              /\ toks[j + 1] = Open("Track")}
    ELSE {}

\* .*? is lazy, and with re.DOTALL it runs over any tags up to the first
\* </TPX></Extensions> that a <Track> follows.
RECURSIVE LapExtensionMatches(_, _)
LapExtensionMatches(toks, i) ==
    LET starts == {s \in i..Len(toks) : LapExtensionEnds(toks, s) # {}}
    IN  IF starts = {} THEN {}
        ELSE LET s == MinOf(starts)
                 e == MinOf(LapExtensionEnds(toks, s))
             IN  (s..e) \cup LapExtensionMatches(toks, e + 1)

\* Remove Lap Extensions (lines 152-157)
RemoveLapExtensions(toks) == Without(toks, LapExtensionMatches(toks, 1))

\* Fix TPX namespace (lines 160-165)
FixTPX(toks) ==
    [i \in 1..Len(toks) |->
        IF toks[i] = OpenA("", "TPX", EXT) THEN OpenA("ns3", "TPX", "")
        ELSE IF toks[i] = Close("TPX") THEN CloseP("ns3", "TPX")
        ELSE toks[i]]

\* content.replace('<Name>', '<ns3:Name>') and the same for '</Name>' (lines 168-173)
PrefixTag(toks, name) ==
    [i \in 1..Len(toks) |->
        IF toks[i] = Open(name) THEN OpenA("ns3", name, "")
        ELSE IF toks[i] = Close(name) THEN CloseP("ns3", name)
        ELSE toks[i]]

\* The end of the match of r'<Resistance>.*?</Resistance>' that starts at
\* i, 0 for no match; without re.DOTALL the match stays on one line.
ResistanceEnd(toks, i) ==
    LET ends == {j \in (i + 1)..Len(toks) :
                     /\ j <= i + 2
                     /\ toks[j] = Close("Resistance")
                     /\ \A k \in (i + 1)..(j - 1) : toks[k].t = "text"}
    IN  IF toks[i] = Open("Resistance") /\ ends # {} THEN MinOf(ends) ELSE 0

RECURSIVE ResistanceMatches(_, _)
ResistanceMatches(toks, i) ==
    LET starts == {s \in i..Len(toks) : ResistanceEnd(toks, s) # 0}
    IN  IF starts = {} THEN {}
        ELSE LET s == MinOf(starts)
                 e == ResistanceEnd(toks, s)
             IN  (s..e) \cup ResistanceMatches(toks, e + 1)

\* Remove Resistance (line 176)
RemoveResistance(toks) == Without(toks, ResistanceMatches(toks, 1))

\* r'<tag>(\d+)\.0</tag>' -> r'<tag>\1</tag>' (lines 179-185)
StripPointZero(toks, p, name) ==
    [i \in 1..Len(toks) |->
        IF /\ 1 < i /\ i < Len(toks)
           /\ toks[i].t = "text"
           /\ toks[i].v.k = "float" /\ ~toks[i].v.neg /\ toks[i].v.den = 1
           /\ toks[i - 1] = OpenA(p, name, "")
           /\ toks[i + 1] = CloseP(p, name)
        THEN Text(IntText(toks[i].v.num))
        ELSE toks[i]]

\* lines 146-185 in order
Rewrite(toks) ==
    LET c1 == RemoveCreator(toks)
        c2 == RemoveLapExtensions(c1)
        c3 == FixTPX(c2)
        c4 == PrefixTag(PrefixTag(c3, "Speed"), "Watts")
        c5 == RemoveResistance(c4)
        c6 == StripPointZero(c5, "", "Value")
        c7 == StripPointZero(c6, "", "Cadence")
    IN  StripPointZero(c7, "ns3", "Watts")

\* ------------------------------------------------------- speed injection
\* [\d.]+ up to the next '<': the whole text is an unsigned decimal
IsPlainDecimal(v) == v.k \in {"int", "float"} /\ ~v.neg

\* the positions j of a <ns3:Speed> that a match starting at the <Time> at i
\* can end in
SpeedMatches(toks, i, time_str) ==
    IF /\ i + 2 <= Len(toks)
       /\ toks[i] = Open("Time") /\ toks[i + 1] = Text(time_str) /\ toks[i + 2] = Close("Time")
    THEN {j \in (i + 3)..(Len(toks) - 2) :
              /\ toks[j] = OpenA("ns3", "Speed", "")
              /\ toks[j + 1].t = "text" /\ IsPlainDecimal(toks[j + 1].v)}
    ELSE {}

\* the position of the text that re.sub(pattern, ..., count=1) of line 192
\* replaces, 0 when the pattern matches nowhere
InjectTarget(toks, time_str) ==
    LET starts == {i \in 1..Len(toks) : SpeedMatches(toks, i, time_str) # {}}
    IN  IF starts = {} THEN 0
        ELSE MinOf(SpeedMatches(toks, MinOf(starts), time_str)) + 1

Inject(toks, time_str, speed) ==
    LET at == InjectTarget(toks, time_str)
    IN  IF at = 0 THEN toks ELSE [toks EXCEPT ![at] = Text(Str(speed))]

\* ------------------------------------------------------- the input family
Secs  == 0..MaxSec
Dists == {0, MaxDist}

ZTimes == {TimeText(sec, "Z") : sec \in Secs}

\* a Speed the source file carries: 11/2 prints as 5.5; -5.5 is not an
\* unsigned decimal
SourceSpeed   == FloatText(FALSE, 11, 2)
NegativeSpeed == FloatText(TRUE, 11, 2)

\* A sample has any time and distance, or lacks its Time, or lacks its
\* DistanceMeters.
Samples ==
    {[time |-> t, dist |-> IntText(d)] : t \in ZTimes, d \in Dists}
    \cup {[time |-> NoVal, dist |-> IntText(0)], [time |-> TimeText(0, "Z"), dist |-> NoVal]}

SeqsUpTo(S, n) == UNION {[1..m -> S] : m \in 1..n}

OneTrack(sms) ==
    [i \in 1..Len(sms) |->
        [brk |-> IF i = 1 THEN "lap" ELSE "cont", time |-> sms[i].time, dist |-> sms[i].dist,
         speed |-> SourceSpeed]]

\* Trackpoints that may start a Track or a Lap, at any second
SplitPoints ==
    [brk : {"cont", "track", "lap"}, time : ZTimes, dist : {NoVal}, speed : {SourceSpeed}]

\* Trackpoints at the first or the last second that may start a Lap, and may
\* lack their Speed or carry a signed one
SpeedPoints ==
    [brk : {"cont", "lap"}, time : {TimeText(0, "Z"), TimeText(MaxSec, "Z")},
     dist : {NoVal}, speed : {NoVal, SourceSpeed, NegativeSpeed}]

\* the same, for the documents of another layout
LayoutPoints ==
    [brk : {"cont", "lap"}, time : {TimeText(0, "Z"), TimeText(MaxSec, "Z")},
     dist : {NoVal}, speed : {NoVal, SourceSpeed}]

\* the distance grows by a metre per Trackpoint
Metres(tps) == [i \in 1..Len(tps) |-> [tps[i] EXCEPT !.dist = IntText(i - 1)]]

Plain == [creator |-> FALSE, lapext |-> FALSE, ns3 |-> TRUE, emptylap |-> FALSE,
          course |-> FALSE, rich |-> FALSE]

\* the layouts of the markup documents; the last is what the bike exports
Layouts ==
    { Plain,
      [Plain EXCEPT !.lapext = TRUE], [Plain EXCEPT !.ns3 = FALSE],
      [Plain EXCEPT !.emptylap = TRUE], [Plain EXCEPT !.course = TRUE],
      [Plain EXCEPT !.creator = TRUE, !.lapext = TRUE, !.rich = TRUE] }

\* the sequences of 1..n elements of S whose first Trackpoint opens a Lap
PointSeqs(S, n) ==
    UNION {{tps \in [1..m -> S] : tps[1].brk = "lap"} : m \in 1..n}

MakeDoc(tps, layout) ==
    [tps |-> tps, creator |-> layout.creator, lapext |-> layout.lapext, ns3 |-> layout.ns3,
     emptylap |-> layout.emptylap, course |-> layout.course, rich |-> layout.rich]

\* The input documents: one Track of any samples; several Tracks and Laps;
\* Speed elements of every kind; every layout of the markup.
Docs ==
    {MakeDoc(OneTrack(sms), Plain) : sms \in SeqsUpTo(Samples, MaxPoints)}
    \cup {MakeDoc(Metres(tps), Plain) : tps \in PointSeqs(SplitPoints, MaxSplit)}
    \cup {MakeDoc(Metres(tps), Plain) : tps \in PointSeqs(SpeedPoints, MaxSplit)}
    \cup {MakeDoc(Metres(tps), l) : tps \in PointSeqs(LayoutPoints, MaxSplit), l \in Layouts}

\* A file: whether it exists, whether it starts with the XML declaration,
\* its text.
NoFile == [exists |-> FALSE, header |-> FALSE, content |-> <<>>]

\* an output file left by an earlier run
StaleFile == [exists |-> TRUE, header |-> TRUE, content |-> <<Open("Stale"), Close("Stale")>>]

File(toks) == [exists |-> TRUE, header |-> TRUE, content |-> toks]

\* the documents in which every Track is the one Track of a Lap
LapDocs == {d \in Docs : ~d.course /\ \A i \in 1..Len(d.tps) : d.tps[i].brk # "track"}

\* the timestamps and distances calculate_speed is tried on
TimeStrs ==
    {TimeText(sec, "Z") : sec \in Secs} \cup {TimeText(sec, "+00:00") : sec \in Secs}
    \cup {TimeText(sec + 60, "+00:01") : sec \in Secs}

NoCall == [prev_distance |-> PyNone, curr_distance |-> PyNone, prev_time |-> PyNone,
           curr_time |-> PyNone, result |-> PyNone, returned |-> FALSE]

\* ---------------------------------------------------------------- state
VARIABLES
    doc,            \* the document the input file was written from
    cut,            \* the input file holds the first cut tags of doc, -1: there is no file
    outfile,        \* the file at the output path
    pc,             \* position in convert_tcx_string
    exc,            \* the exception it raised, "" for none
    content,        \* the text being transformed
    tree,           \* the elements of the initial parse
    laps,           \* the Lap elements of the loops of lines 120-121
    li,             \* the number of Laps entered
    trackpoints,    \* the Trackpoints of the current Track
    ti,             \* the next of them
    prev_distance,
    prev_time,
    speed_data,     \* the lookup, in insertion order: <<[key, val], ...>>
    ki,             \* the next lookup entry to inject
    call            \* a call of calculate_speed on its own: arguments and result

vars == <<doc, cut, outfile, pc, exc, content, tree, laps, li, trackpoints, ti,
          prev_distance, prev_time, speed_data, ki, call>>

Locals ==
    /\ exc = ""
    /\ content = <<>>
    /\ tree = <<>>
    /\ laps = <<>>
    /\ li = 0
    /\ trackpoints = <<>>
    /\ ti = 1
    /\ prev_distance = PyInt(0)
    /\ prev_time = PyNone
    /\ speed_data = <<>>
    /\ ki = 1

\* convert_tcx_string is called on an input path and an output path.  The
\* input file is a document of D, a one-Trackpoint document of D cut off after
\* any number of tags, or missing; a file that converts is written to a fresh
\* path, a failing one to either a fresh path or over an older output.
InitOn(D) ==
    /\ \/ \E d \in D :
             /\ doc = d
             /\ cut = Len(Render(d))
             /\ outfile = NoFile
       \/ \E d \in {x \in D : Len(x.tps) = 1} :
             /\ doc = d
             /\ cut \in 0..(Len(Render(d)) - 1)
             /\ outfile \in {NoFile, StaleFile}
       \/ /\ doc = MakeDoc(<<>>, Plain)
          /\ cut = -1
          /\ outfile \in {NoFile, StaleFile}
    /\ pc = "start"
    /\ Locals
    /\ call = NoCall

Init == InitOn(Docs)

InitLaps == InitOn(LapDocs)

\* speed_data[key] = val on a dict, which keeps insertion order
Put(sd, key, val) ==
    IF \E i \in 1..Len(sd) : sd[i].key = key
    THEN [i \in 1..Len(sd) |-> IF sd[i].key = key THEN [key |-> key, val |-> val] ELSE sd[i]]
    ELSE Append(sd, [key |-> key, val |-> val])

HasKey(sd, key) == \E i \in 1..Len(sd) : sd[i].key = key

Get(sd, key) == sd[CHOOSE i \in 1..Len(sd) : sd[i].key = key].val

\* the file at the input path
infile == IF cut < 0 THEN NoFile ELSE File(SubSeq(Render(doc), 1, cut))

\* ---------------------------------------------------------------- actions
\* lines 106-107, the file exists
ReadInput ==
    /\ pc = "start"
    /\ infile.exists
    /\ content' = infile.content
    /\ pc' = "parse"
    /\ UNCHANGED <<doc, cut, outfile, exc, tree, laps, li, trackpoints, ti,
                   prev_distance, prev_time, speed_data, ki, call>>

\* line 106, open() raises
InputNotFound ==
    /\ pc = "start"
    /\ ~infile.exists
    /\ exc' = "FileNotFoundError"
    /\ pc' = "raised"
    /\ UNCHANGED <<doc, cut, outfile, content, tree, laps, li, trackpoints, ti,
                   prev_distance, prev_time, speed_data, ki, call>>

\* the Laps of every Activity, in the order the loops of lines 120-121 visit them
LapsOf(nodes) ==
    LET acts == findall(nodes, 1, "tcx", "Activity")
    IN  Flatten([a \in 1..Len(acts) |-> findall(nodes, acts[a], "tcx", "Lap")])

\* line 110, the text is well-formed
ParseInput ==
    /\ pc = "parse"
    /\ LET parsed == fromstring(content)
       IN  /\ parsed.ok
           /\ tree' = Elements(parsed.nodes)
           /\ laps' = LapsOf(parsed.nodes)
    /\ pc' = "build"
    /\ UNCHANGED <<doc, cut, outfile, exc, content, li, trackpoints, ti,
                   prev_distance, prev_time, speed_data, ki, call>>

\* a conversion that copies a text that does not parse to the output path
ParseErrorIgnored ==
    /\ pc = "parse"
    /\ ~fromstring(content).ok
    /\ outfile' = [exists |-> TRUE, header |-> FALSE, content |-> content]
    /\ pc' = "done"
    /\ UNCHANGED <<doc, cut, exc, content, tree, laps, li, trackpoints, ti,
                   prev_distance, prev_time, speed_data, ki, call>>

\* line 110, ET.fromstring raises
ParseError ==
    /\ pc = "parse"
    /\ ~fromstring(content).ok
    /\ exc' = "ParseError"
    /\ pc' = "raised"
    /\ UNCHANGED <<doc, cut, outfile, content, tree, laps, li, trackpoints, ti,
                   prev_distance, prev_time, speed_data, ki, call>>

\* a loop that carries the previous sample over from one Track to the next
EnterLapKeepingPrev ==
    /\ pc = "build"
    /\ ti > Len(trackpoints)
    /\ li < Len(laps)
    /\ li' = li + 1
    /\ LET track == find(tree, laps[li + 1], "tcx", "Track")
       IN  trackpoints' = IF track = 0 THEN <<>>
                          ELSE findall(tree, track, "tcx", "Trackpoint")
    /\ ti' = 1
    /\ UNCHANGED <<doc, cut, outfile, pc, exc, content, tree, laps, speed_data, ki, call,
                   prev_distance, prev_time>>

\* lines 121-128: the next Lap; its first Track, if it has one
EnterLap ==
    /\ pc = "build"
    /\ ti > Len(trackpoints)
    /\ li < Len(laps)
    /\ li' = li + 1
    /\ LET track == find(tree, laps[li + 1], "tcx", "Track")
       IN  IF track = 0
           THEN /\ trackpoints' = <<>>
                /\ UNCHANGED <<prev_distance, prev_time>>
           ELSE /\ trackpoints' = findall(tree, track, "tcx", "Trackpoint")
                /\ prev_distance' = PyInt(0)
                /\ prev_time' = PyNone
    /\ ti' = 1
    /\ UNCHANGED <<doc, cut, outfile, pc, exc, content, tree, laps, speed_data, ki, call>>

\* lines 130-144: one Trackpoint of the current Track
BuildStep ==
    /\ pc = "build"
    /\ ti <= Len(trackpoints)
    /\ LET tp        == trackpoints[ti]
           time_elem == find(tree, tp, "tcx", "Time")
           dist_elem == find(tree, tp, "tcx", "DistanceMeters")
       IN  IF time_elem = 0 \/ dist_elem = 0
           THEN UNCHANGED <<prev_distance, prev_time, speed_data, pc, exc>>
           ELSE LET curr_time     == tree[time_elem].text
                    curr_distance == Float(tree[dist_elem].text)
                    speed == calculate_speed(prev_distance, curr_distance, prev_time, curr_time)
                IN  IF speed.k \in {"ZeroDivisionError", "ValueError"}
                    THEN /\ exc' = speed.k
                         /\ pc' = "raised"
                         /\ UNCHANGED <<prev_distance, prev_time, speed_data>>
                    ELSE /\ speed_data' = Put(speed_data, curr_time, speed)
                         /\ prev_distance' = curr_distance
                         /\ prev_time' = curr_time
                         /\ UNCHANGED <<pc, exc>>
    /\ ti' = ti + 1
    /\ UNCHANGED <<doc, cut, outfile, content, tree, laps, li, trackpoints, ki, call>>

\* lines 146-185: the loops are over, the rewrite rules run
RewriteRules ==
    /\ pc = "build"
    /\ ti > Len(trackpoints)
    /\ li = Len(laps)
    /\ content' = Rewrite(content)
    /\ pc' = "inject"
    /\ UNCHANGED <<doc, cut, outfile, exc, tree, laps, li, trackpoints, ti,
                   prev_distance, prev_time, speed_data, ki, call>>

\* lines 188-192: one entry of the lookup
InjectStep ==
    /\ pc = "inject"
    /\ ki <= Len(speed_data)
    /\ content' = Inject(content, speed_data[ki].key, speed_data[ki].val)
    /\ ki' = ki + 1
    /\ UNCHANGED <<doc, cut, outfile, pc, exc, tree, laps, li, trackpoints, ti,
                   prev_distance, prev_time, speed_data, call>>

\* lines 195-206: the rewritten text parses
WritePretty ==
    /\ pc = "inject"
    /\ ki > Len(speed_data)
    /\ LET parsed == fromstring(content)
       IN  /\ parsed.ok
           /\ outfile' = File(tostring(parsed.nodes))
    /\ pc' = "done"
    /\ UNCHANGED <<doc, cut, exc, content, tree, laps, li, trackpoints, ti,
                   prev_distance, prev_time, speed_data, ki, call>>

\* a fallback that lets the parse error of line 196 out
WriteFallbackRaising ==
    /\ pc = "inject"
    /\ ki > Len(speed_data)
    /\ ~fromstring(content).ok
    /\ exc' = "ParseError"
    /\ pc' = "raised"
    /\ UNCHANGED <<doc, cut, outfile, content, tree, laps, li, trackpoints, ti,
                   prev_distance, prev_time, speed_data, ki, call>>

\* lines 208-211: it does not
WriteFallback ==
    /\ pc = "inject"
    /\ ki > Len(speed_data)
    /\ ~fromstring(content).ok
    /\ outfile' = [exists |-> TRUE, header |-> FALSE, content |-> content]
    /\ pc' = "done"
    /\ UNCHANGED <<doc, cut, exc, content, tree, laps, li, trackpoints, ti,
                   prev_distance, prev_time, speed_data, ki, call>>

Next ==
    \/ ReadInput
    \/ InputNotFound
    \/ ParseInput
    \/ ParseError
    \/ EnterLap
    \/ BuildStep
    \/ RewriteRules
    \/ InjectStep
    \/ WritePretty
    \/ WriteFallback

Spec == Init /\ [][Next]_vars

\* the conversion of the documents in which every Track is the one Track of a Lap
SpecLaps == InitLaps /\ [][Next]_vars

\* ------------------------------------------------ calculate_speed alone
InitSpeed ==
    /\ call \in [prev_distance : {PyInt(0)} \cup {Float(IntText(d)) : d \in Dists},
                 curr_distance : {Float(IntText(d)) : d \in Dists},
                 prev_time : {PyNone} \cup TimeStrs,
                 curr_time : TimeStrs,
                 result : {PyNone}, returned : {FALSE}]
    /\ doc = MakeDoc(<<>>, Plain)
    /\ cut = -1
    /\ outfile = NoFile
    /\ pc = "calculate_speed"
    /\ Locals

CallSpeed ==
    /\ pc = "calculate_speed"
    /\ ~call.returned
    /\ call' = [call EXCEPT !.returned = TRUE,
                            !.result = calculate_speed(call.prev_distance, call.curr_distance,
                                                       call.prev_time, call.curr_time)]
    /\ UNCHANGED <<doc, cut, outfile, pc, exc, content, tree, laps, li, trackpoints, ti,
                   prev_distance, prev_time, speed_data, ki>>

NextSpeed == CallSpeed

SpecSpeed == InitSpeed /\ [][NextSpeed]_vars

\* ====================================================== what the claims say
\* The claims speak of the input document: its Tracks, their samples, the
\* speed each sample should get.  tps are the Trackpoints of the document.
Valid(tp) == tp.time # NoVal /\ tp.dist # NoVal

\* the first Trackpoint of the Track that Trackpoint k is in
TrackStart(tps, k) ==
    CHOOSE i \in 1..k :
        /\ i = 1 \/ tps[i].brk # "cont"
        /\ \A j \in (i + 1)..k : tps[j].brk = "cont"

\* the valid sample before k in its Track, 0 if k is the first
Pred(tps, k) ==
    LET before == {j \in TrackStart(tps, k)..(k - 1) : Valid(tps[j])}
    IN  IF before = {} THEN 0 ELSE CHOOSE j \in before : \A i \in before : i <= j

\* the instant a timestamp denotes, in seconds
Instant(t) == t.num - (IF t.s = "+00:01" THEN 60 ELSE 0)

Numeric(v) == v.k \in {"pyint", "pyfloat", "int", "float"}

Signed(v) == IF v.neg THEN 0 - v.num ELSE v.num

\* v is the speed of sample k: 0 for the first valid sample of a Track and
\* for no elapsed time, else distance delta over time delta
SpeedIs(v, tps, k) ==
    /\ Numeric(v)
    /\ LET j == Pred(tps, k)
       IN  IF j = 0 THEN v.num = 0
           ELSE LET td == Instant(tps[k].time) - Instant(tps[j].time)
                    dd == tps[k].dist.num - tps[j].dist.num
                IN  IF td = 0 THEN v.num = 0 ELSE Signed(v) * td = dd * v.den

\* the lookup is complete once the loops of lines 120-144 are over
LookupBuilt == pc \in {"inject", "done"}

\* the positions of the <Trackpoint> tags of a text
PointStarts(toks) ==
    SelectSeq([i \in 1..Len(toks) |-> i],
              LAMBDA i : toks[i].t = "open" /\ toks[i].n = "Trackpoint")

\* the text of the Speed element of the k-th Trackpoint of a text, NoVal if
\* it has none
SpeedOf(toks, k) ==
    LET starts == PointStarts(toks)
        lo == starts[k]
        hi == IF k < Len(starts) THEN starts[k + 1] ELSE Len(toks)
        at == {j \in lo..(hi - 2) :
                   toks[j].t = "open" /\ toks[j].n = "Speed" /\ toks[j + 1].t = "text"}
    IN  IF k > Len(starts) \/ at = {} THEN NoVal ELSE toks[MinOf(at) + 1].v

\* the Trackpoint tags, start and end, and the Time and DistanceMeters
\* elements of a text, without namespace prefixes
Skeleton(toks) ==
    LET keep == SelectSeq([i \in 1..Len(toks) |-> i],
                    LAMBDA i : \/ toks[i].n \in {"Trackpoint", "Time", "DistanceMeters"}
                               \/ /\ toks[i].t = "text"
                                  /\ toks[i - 1].n \in {"Time", "DistanceMeters"})
    IN  [i \in 1..Len(keep) |-> [t |-> toks[keep[i]].t, n |-> toks[keep[i]].n,
                                  v |-> toks[keep[i]].v]]

\* C1: once the lookup is built, the timestamp of the first valid sample of
\* every Track of the document maps to speed 0.
C1_FirstSampleOfEveryTrackIsZero ==
    LookupBuilt =>
        \A k \in 1..Len(doc.tps) :
            (Valid(doc.tps[k]) /\ Pred(doc.tps, k) = 0) =>
                /\ HasKey(speed_data, doc.tps[k].time)
                /\ IsZero(Get(speed_data, doc.tps[k].time))

\* C2: after a conversion every Trackpoint with a Time, a DistanceMeters and a
\* Speed carries in the output file the speed recomputed for that Trackpoint.
C2_OutputCarriesOwnSpeed ==
    pc = "done" =>
        \A k \in 1..Len(doc.tps) :
            (Valid(doc.tps[k]) /\ doc.tps[k].speed # NoVal) =>
                SpeedIs(SpeedOf(outfile.content, k), doc.tps, k)

\* the position of the first <Time> element whose text is time_str, 0 for none
FirstTime(toks, time_str) ==
    LET at == {i \in 1..(Len(toks) - 1) :
                   toks[i].t = "open" /\ toks[i].n = "Time" /\ toks[i + 1] = Text(time_str)}
    IN  IF at = {} THEN 0 ELSE MinOf(at)

\* positions i < j of a text lie in one Trackpoint
SamePoint(toks, i, j) == \A m \in i..j : toks[m].n # "Trackpoint"

\* C3: the injection for a timestamp T rewrites at most one Speed element, and
\* that one lies in the Trackpoint of the first Time element equal to T.
C3_InjectionStaysInItsTrackpoint ==
    [][(pc = "inject" /\ ki' = ki + 1) =>
          LET T == speed_data[ki].key
              changed == {i \in 1..Len(content) : content'[i] # content[i]}
          IN  /\ Len(content') = Len(content)
              /\ Cardinality(changed) <= 1
              /\ \A i \in changed :
                    /\ content[i - 1].t = "open" /\ content[i - 1].n = "Speed"
                    /\ FirstTime(content, T) # 0
                    /\ FirstTime(content, T) < i
                    /\ SamePoint(content, FirstTime(content, T), i)]_vars

\* C4: the output file has the Trackpoints of the input file, whole and in
\* the same order.
C4_TrackpointsSurvive ==
    pc = "done" => \E f \in {infile} : Skeleton(outfile.content) = Skeleton(f.content)

\* C5: once the lookup is built, the timestamp of every Trackpoint that has a
\* Time and a DistanceMeters, in whichever Track, is a key of the lookup.
C5_EveryTrackIsInTheLookup ==
    LookupBuilt =>
        \A k \in 1..Len(doc.tps) :
            Valid(doc.tps[k]) => HasKey(speed_data, doc.tps[k].time)

\* C6: the text written to the output file is well-formed, on the normal and
\* on the fallback path.
C6_OutputIsWellFormed ==
    pc = "done" => fromstring(outfile.content).ok

\* the input path names no file, or a file whose text is not well-formed
BadInput == \E f \in {infile} : ~f.exists \/ ~fromstring(f.content).ok

\* C7: on a missing or malformed input every step of the conversion leaves the
\* output file as it was, runs no rewrite rule, and can only read the text or
\* raise: FileNotFoundError for a missing file, ParseError for a malformed one.
C7_BadInputFailsBeforeAnyWrite ==
    [][BadInput =>
          /\ outfile' = outfile
          /\ content' \in {content, infile.content}
          /\ pc' \in {"parse", "raised"}
          /\ pc' = "parse" => infile.exists
          /\ pc' = "raised" =>
                exc' = IF infile.exists THEN "ParseError" ELSE "FileNotFoundError"]_vars

\* a malformed input has raised ParseError and the older output file is as it was
C7_Witness ==
    /\ BadInput
    /\ pc = "raised"
    /\ exc = "ParseError"
    /\ content = infile.content
    /\ outfile = StaleFile

\* every entry of a lookup injected in turn, lines 188-192
RECURSIVE InjectAll(_, _, _)
InjectAll(toks, sd, i) ==
    IF i > Len(sd) THEN toks
    ELSE InjectAll(Inject(toks, sd[i].key, sd[i].val), sd, i + 1)

\* the injections are over and the rewritten text does not parse
FallbackCase == pc = "inject" /\ ki > Len(speed_data) /\ ~fromstring(content).ok

\* C8: when the rewritten text does not parse, the conversion ends without an
\* exception and the output file holds exactly the rewritten text, with every
\* rule and every injection applied and no declaration header.
C8_FallbackWritesRewrittenText ==
    [][FallbackCase =>
          /\ pc' = "done"
          /\ exc' = ""
          /\ outfile' = [exists |-> TRUE, header |-> FALSE, content |-> content]
          /\ \E f \in {infile} : content = InjectAll(Rewrite(f.content), speed_data, 1)]_vars

\* the fallback wrote a text in which the rules and an injection changed something
C8_Witness ==
    /\ pc = "done"
    /\ exc = ""
    /\ ~fromstring(content).ok
    /\ outfile = [exists |-> TRUE, header |-> FALSE, content |-> content]
    /\ \E f \in {infile} :
          /\ content # Rewrite(f.content)
          /\ Rewrite(f.content) # f.content

\* C9: for a previous and a current timestamp of the same instant, written
\* alike or once with Z and once with an offset, calculate_speed returns the
\* number 0 and not a division fault, whatever the distances.
C9_SameInstantIsZero ==
    (call.returned /\ call.prev_time # PyNone
        /\ Instant(call.prev_time) = Instant(call.curr_time)) =>
            /\ Numeric(call.result)
            /\ IsZero(call.result)

\* Z against +00:00 at one instant, with different distances
C9_Witness ==
    /\ call.returned
    /\ call.prev_time # PyNone
    /\ call.prev_time.s = "Z"
    /\ call.curr_time.s = "+00:00"
    /\ Instant(call.prev_time) = Instant(call.curr_time)
    /\ call.prev_distance # call.curr_distance
    /\ call.result = PyInt(0)

\* the number, in document order, of the Trackpoint at a position of the tree
PointNumber(nodes, i) == Cardinality({j \in 1..i : nodes[j].n = "Trackpoint"})

\* C10: a step of the lookup loop on a Trackpoint without Time or
\* DistanceMeters changes neither the lookup nor the previous sample; on a
\* valid one it stores, unclamped, the speed against the preceding valid sample
\* of the same Track (0 for the first) and makes the Trackpoint the previous one.
C10_PreviousIsInTheSameTrack ==
    [][(pc = "build" /\ ti' = ti + 1) =>
          LET k  == PointNumber(tree, trackpoints[ti])
              tp == doc.tps[k]
          IN  IF ~Valid(tp)
              THEN UNCHANGED <<speed_data, prev_distance, prev_time>>
              ELSE /\ pc' = "build"
                   /\ HasKey(speed_data', tp.time)
                   /\ SpeedIs(Get(speed_data', tp.time), doc.tps, k)
                   /\ Pred(doc.tps, k) # 0 =>
                         /\ prev_time = doc.tps[Pred(doc.tps, k)].time
                         /\ prev_distance = Float(doc.tps[Pred(doc.tps, k)].dist)
                   /\ prev_time' = tp.time
                   /\ prev_distance' = Float(tp.dist)]_vars

\* a Track with a valid, an invalid and a valid sample, the last one stored
\* with a negative speed
C10_Witness ==
    /\ LookupBuilt
    /\ \E k \in 1..Len(doc.tps) :
          /\ Valid(doc.tps[k])
          /\ Pred(doc.tps, k) # 0
          /\ Pred(doc.tps, k) < k - 1
          /\ HasKey(speed_data, doc.tps[k].time)
          /\ Get(speed_data, doc.tps[k].time).neg
          /\ Get(speed_data, doc.tps[k].time).num # 0

====
